---- MODULE Spec2Model ----
(***************************************************************************)
(* Status reconciliation core of dvc-butler (src-tauri/src/file.rs):       *)
(* the porcelain code table, the ledger status map, the sidecar resolver   *)
(* and the directory walk of list_file_entries.                            *)
(*                                                                         *)
(* Strings are sequences of one-character strings, so that trimming,       *)
(* extension handling and byte-wise ordering are computed, not assumed.    *)
(***************************************************************************)
EXTENDS Integers, Sequences, FiniteSets, TLC

VARIABLES
    \* parse_git_status applied to one pair of column characters
    px, py, pcode,
    \* update_git_status_map
    git_fail, snapshot, porcelain, tracked_rest, lines_rest, status_map, lpc,
    \* the sidecar resolver applied to one path
    sc_path, sc_is_file, sc_dvc_file,
    \* list_file_entries: the filesystem, the arguments, the walk, the results
    fs, dir_path, repo_root, git_status_map, dvc_status_map, ignore_prefixes,
    stack, files, rpc, returned,
    \* how many times the walk of the current call has yielded each entry
    visited,
    \* the Selection Set: the guarded set, the calls that returned, the lock,
    \* and each caller's position, command and copy of the set
    paths, history, mutex, cpc, ccmd, clocal,
    \* get_relative_path applied to one path, and again to its own result
    np_path, np_root, np_once, np_twice,
    \* dvc_diff: how the script ran, the report it printed, the value returned
    dvc_run, dvc_report, dvc_result,
    \* add_dvc_file: its `file` argument, how its commands ran, the value returned
    add_file, add_run, add_result

parseVars == <<px, py, pcode>>
ledgerVars == <<git_fail, snapshot, porcelain, tracked_rest, lines_rest, status_map, lpc>>
sidecarVars == <<sc_path, sc_is_file, sc_dvc_file>>
walkArgs == <<fs, dir_path, repo_root, git_status_map, dvc_status_map, ignore_prefixes>>
walkVars == <<fs, dir_path, repo_root, git_status_map, dvc_status_map, ignore_prefixes,
              stack, files, rpc, returned, visited>>
selVars == <<paths, history, mutex, cpc, ccmd, clocal>>
normVars == <<np_path, np_root, np_once, np_twice>>
dvcVars == <<dvc_run, dvc_report, dvc_result>>
addVars == <<add_file, add_run, add_result>>
vars == <<px, py, pcode, git_fail, snapshot, porcelain, tracked_rest, lines_rest,
          status_map, lpc, sc_path, sc_is_file, sc_dvc_file, fs, dir_path, repo_root,
          git_status_map, dvc_status_map, ignore_prefixes, stack, files, rpc, returned,
          visited, paths, history, mutex, cpc, ccmd, clocal, np_path, np_root, np_once, np_twice,
          dvc_run, dvc_report, dvc_result, add_file, add_run, add_result>>

----------------------------------------------------------------------------
(* Strings *)

Min(a, b) == IF a < b THEN a ELSE b

\* s with its first n characters removed (chars().skip(n))
Skip(s, n) == SubSeq(s, Min(n, Len(s)) + 1, Len(s))

\* the first n characters of s
Take(s, n) == SubSeq(s, 1, Min(n, Len(s)))

StartsWith(s, pre) == Len(s) >= Len(pre) /\ Take(s, Len(pre)) = pre

EndsWith(s, suf) == Len(s) >= Len(suf) /\ Skip(s, Len(s) - Len(suf)) = suf

\* the whitespace characters a line of command output can hold
Whitespace == {" ", "\t", "\r"}

RECURSIVE TrimStartMatches(_, _)
TrimStartMatches(s, cs) ==
    IF s # <<>> /\ Head(s) \in cs THEN TrimStartMatches(Tail(s), cs) ELSE s

RECURSIVE TrimEndMatches(_, _)
TrimEndMatches(s, cs) ==
    IF s # <<>> /\ s[Len(s)] \in cs THEN TrimEndMatches(SubSeq(s, 1, Len(s) - 1), cs) ELSE s

\* str::trim: leading and trailing whitespace removed
Trim(s) == TrimEndMatches(TrimStartMatches(s, Whitespace), Whitespace)

\* str::trim_matches('"')
TrimQuotes(s) == TrimEndMatches(TrimStartMatches(s, {"\""}), {"\""})

\* str::replace('\\', "/")
ReplaceBackslash(s) == [i \in 1..Len(s) |-> IF s[i] = "\\" THEN "/" ELSE s[i]]

\* HashMap::insert
Insert(m, k, v) == [q \in (DOMAIN m) \cup {k} |-> IF q = k THEN v ELSE m[q]]

EmptyMap == [q \in {} |-> "untracked"]

----------------------------------------------------------------------------
(* std::path on strings.  Option values: None is <<>>, Some(v) is <<v>>. *)

None == <<>>
Some(v) == <<v>>

RECURSIVE SplitAcc(_, _, _)
SplitAcc(s, cur, acc) ==
    IF s = <<>> THEN Append(acc, cur)
    ELSE IF Head(s) = "/" THEN SplitAcc(Tail(s), <<>>, Append(acc, cur))
    ELSE SplitAcc(Tail(s), Append(cur, Head(s)), acc)

\* the pieces of s between separators
Split(s) == SplitAcc(s, <<>>, <<>>)

IsAbsolute(p) == p # <<>> /\ p[1] = "/"

RECURSIVE ComponentsFrom(_, _, _)
ComponentsFrom(parts, i, abs) ==
    IF i > Len(parts) THEN <<>>
    ELSE LET keep == /\ parts[i] # <<>>
                     /\ (parts[i] = <<".">> => (i = 1 /\ ~abs))
         IN  (IF keep THEN <<parts[i]>> ELSE <<>>) \o ComponentsFrom(parts, i + 1, abs)

\* Path::components: the root directory is the component "/", empty pieces
\* and inner "." pieces are dropped
Components(p) ==
    (IF IsAbsolute(p) THEN << <<"/">> >> ELSE <<>>) \o ComponentsFrom(Split(p), 1, IsAbsolute(p))

RECURSIVE JoinComponents(_)
JoinComponents(cs) ==
    IF cs = <<>> THEN <<>>
    ELSE IF Len(cs) = 1 THEN cs[1]
    ELSE IF cs[1] = <<"/">> THEN cs[1] \o JoinComponents(Tail(cs))
    ELSE cs[1] \o <<"/">> \o JoinComponents(Tail(cs))

\* Path::file_name
FileName(p) ==
    LET cs == Components(p)
    IN  IF cs = <<>> THEN None
        ELSE IF cs[Len(cs)] \in { <<"/">>, <<".">>, <<".", ".">> } THEN None
        ELSE Some(cs[Len(cs)])

\* index of the last '.' of name, 0 when there is none
LastDot(name) ==
    LET dots == { i \in 1..Len(name) : name[i] = "." }
    IN  IF dots = {} THEN 0 ELSE CHOOSE i \in dots : \A j \in dots : j <= i

\* Path::extension
Extension(p) ==
    LET n == FileName(p)
        dot == LastDot(n[1])
    IN  IF n = None THEN None
        ELSE IF dot <= 1 THEN None
        ELSE Some(Skip(n[1], dot))

\* Path::file_stem
FileStem(p) ==
    LET n == FileName(p)
        dot == LastDot(n[1])
    IN  IF n = None THEN None
        ELSE IF dot <= 1 THEN n
        ELSE Some(Take(n[1], dot - 1))

\* PathBuf::set_extension: the path is cut right after the file stem, then
\* "." and the new extension are appended when the extension is not empty
SetExtension(p, ext) ==
    LET stem == FileStem(p)
        name_end == Len(TrimEndMatches(p, {"/"}))
        stem_end == name_end - Len(FileName(p)[1]) + Len(stem[1])
    IN  IF stem = None THEN p
        ELSE Take(p, stem_end) \o (IF ext # <<>> THEN <<".">> \o ext ELSE <<>>)

\* Path::join with a relative right-hand side
Join(p, q) ==
    IF IsAbsolute(q) THEN q
    ELSE IF p = <<>> \/ p[Len(p)] = "/" THEN p \o q
    ELSE p \o <<"/">> \o q

\* Path::strip_prefix
StripPrefix(p, base) ==
    LET cp == Components(p)
        cb == Components(base)
    IN  IF Len(cb) <= Len(cp) /\ SubSeq(cp, 1, Len(cb)) = cb
          THEN Some(JoinComponents(SubSeq(cp, Len(cb) + 1, Len(cp))))
          ELSE None

\* Option::unwrap_or_default on an optional string
UnwrapOrDefault(o) == IF o = None THEN <<>> ELSE o[1]

----------------------------------------------------------------------------
(* parse_git_status *)

\* the table with the two worktree-only rows exchanged
parse_git_status_swapped(x, y) ==
    CASE x = "?" /\ y = "?" -> "untracked"
      [] x \in {"A", "M", "D", "R", "C"} /\ y = " " -> "staged"
      [] x = " " /\ y = "M" -> "deleted"
      [] x = " " /\ y = "D" -> "modified"
      [] x \in {"M", "A"} /\ y = "M" -> "partially_staged"
      [] x = "U" /\ y = "U" -> "conflict"
      [] x = "D" /\ y = "D" -> "conflict"
      [] x = "A" /\ y = "A" -> "conflict"
      [] x = "U" /\ y = "D" -> "conflict"
      [] x = "D" /\ y = "U" -> "conflict"
      [] OTHER -> "other"

parse_git_status(x, y) ==
    CASE x = "?" /\ y = "?" -> "untracked"
      [] x = "A" /\ y = " " -> "staged"
      [] x = "M" /\ y = " " -> "staged"
      [] x = "D" /\ y = " " -> "staged"
      [] x = "R" /\ y = " " -> "staged"
      [] x = "C" /\ y = " " -> "staged"
      [] x = " " /\ y = "M" -> "modified"
      [] x = " " /\ y = "D" -> "deleted"
      [] x = "M" /\ y = "M" -> "partially_staged"
      [] x = "A" /\ y = "M" -> "partially_staged"
      [] x = "U" /\ y = "U" -> "conflict"
      [] x = "D" /\ y = "D" -> "conflict"
      [] x = "A" /\ y = "A" -> "conflict"
      [] x = "U" /\ y = "D" -> "conflict"
      [] x = "D" /\ y = "U" -> "conflict"
      [] OTHER -> "other"

\* the column characters of the porcelain format
StatusChars == {" ", "?", "M", "A", "D", "R", "C", "U", "T"}

ParseInit ==
    /\ px \in StatusChars
    /\ py \in StatusChars
    /\ pcode = "unset"

ParseStatus ==
    /\ pcode = "unset"
    /\ pcode' = parse_git_status(px, py)
    /\ UNCHANGED <<px, py>>

----------------------------------------------------------------------------
(* update_git_status_map *)

\* the path carried by a line of `git ls-tree --name-only` (closure at
\* file.rs:77-81)
TrackedPath(line) == ReplaceBackslash(TrimQuotes(Trim(line)))

LsTree ==
    /\ lpc = "ls-tree"
    /\ IF git_fail = "ls-tree"
         THEN lpc' = "err" /\ UNCHANGED tracked_rest
         ELSE /\ tracked_rest' = [i \in 1..Len(snapshot) |-> TrackedPath(snapshot[i])]
              /\ lpc' = "seed"
    /\ UNCHANGED <<git_fail, snapshot, porcelain, lines_rest, status_map>>

\* one iteration of `for file in tracked_files`
SeedTracked ==
    /\ lpc = "seed"
    /\ tracked_rest # <<>>
    /\ status_map' = Insert(status_map, Head(tracked_rest), "pushed")
    /\ tracked_rest' = Tail(tracked_rest)
    /\ UNCHANGED <<git_fail, snapshot, porcelain, lines_rest, lpc>>

GitStatus ==
    /\ lpc = "seed"
    /\ tracked_rest = <<>>
    /\ IF git_fail = "status"
         THEN lpc' = "err" /\ UNCHANGED lines_rest
         ELSE lines_rest' = porcelain /\ lpc' = "scan"
    /\ UNCHANGED <<git_fail, snapshot, porcelain, tracked_rest, status_map>>

\* the entry one status line adds to the map: <<key, status>>, or <<>> when
\* the line is skipped
ScanEntry(line) ==
    LET trimmed == Trim(line)
    IN  IF Len(trimmed) < 3 THEN <<>>
        ELSE LET x == trimmed[1]
                 y == trimmed[2]
                 file_path == Skip(trimmed, 3)
                 normalized_path == ReplaceBackslash(TrimQuotes(file_path))
             IN  <<normalized_path, parse_git_status(x, y)>>

\* one iteration of `for line in stdout.lines()`
ScanLine ==
    /\ lpc = "scan"
    /\ lines_rest # <<>>
    /\ LET e == ScanEntry(Head(lines_rest))
       IN  status_map' = IF e = <<>> THEN status_map ELSE Insert(status_map, e[1], e[2])
    /\ lines_rest' = Tail(lines_rest)
    /\ UNCHANGED <<git_fail, snapshot, porcelain, tracked_rest, lpc>>

ReturnMap ==
    /\ lpc = "scan"
    /\ lines_rest = <<>>
    /\ lpc' = "done"
    /\ UNCHANGED <<git_fail, snapshot, porcelain, tracked_rest, lines_rest, status_map>>

----------------------------------------------------------------------------
(* Sidecar resolver: the path computed by check_dvc_file and by
   get_git_status_for_path *)

DotDvc == <<".", "d", "v", "c">>

\* file: set_extension(extension-or-empty ++ ".dvc"); directory: <dir>/<name>.dvc
SidecarPath(path, is_file) ==
    IF is_file
      THEN SetExtension(path, UnwrapOrDefault(Extension(path)) \o DotDvc)
      ELSE LET name == IF FileName(path) = None THEN path ELSE FileName(path)[1]
           IN  Join(path, name \o DotDvc)

ResolveSidecar ==
    /\ sc_dvc_file = None
    /\ sc_dvc_file' = Some(SidecarPath(sc_path, sc_is_file))
    /\ UNCHANGED <<sc_path, sc_is_file>>

----------------------------------------------------------------------------
(* The filesystem seen by list_file_entries: a function from resolved paths
   to [kind, size] *)

\* the path with "." pieces and doubled separators removed
Resolve(p) == JoinComponents(Components(p))

Exists(fsys, p) == Resolve(p) \in DOMAIN fsys

IsFile(fsys, p) == Exists(fsys, p) /\ fsys[Resolve(p)].kind = "file"

IsDir(fsys, p) == Exists(fsys, p) /\ fsys[Resolve(p)].kind = "dir"

IsSymlink(fsys, p) == Exists(fsys, p) /\ fsys[Resolve(p)].kind = "symlink"

ParentPath(p) ==
    LET cs == Components(p)
    IN  IF cs = <<>> THEN <<>> ELSE JoinComponents(SubSeq(cs, 1, Len(cs) - 1))

\* the paths WalkDir builds for the entries of directory p: p joined with
\* each entry's file name
ChildPaths(fsys, p) ==
    LET dir == Resolve(p)
    IN  { Join(p, FileName(q)[1]) : q \in { r \in DOMAIN fsys : r # dir /\ ParentPath(r) = dir } }

----------------------------------------------------------------------------
(* list_file_entries *)

check_dvc_file(fsys, path) == Exists(fsys, SidecarPath(path, IsFile(fsys, path)))

\* the fallback gives the file name of the path
get_relative_path_name_fallback(path, root) ==
    LET stripped == StripPrefix(path, root)
    IN  IF stripped # None THEN ReplaceBackslash(stripped[1])
        ELSE ReplaceBackslash(UnwrapOrDefault(FileName(path)))

get_relative_path(path, root) ==
    LET stripped == StripPrefix(path, root)
    IN  IF stripped # None THEN ReplaceBackslash(stripped[1]) ELSE ReplaceBackslash(path)

get_git_status_for_path(fsys, path, root, status, has_dvc_file) ==
    LET git_path == IF has_dvc_file THEN SidecarPath(path, IsFile(fsys, path)) ELSE path
        relative_path == get_relative_path(git_path, root)
    IN  IF relative_path \in DOMAIN status THEN status[relative_path] ELSE "untracked"

\* the skip rules of the loop body (file.rs:232-265), in the code's order
IsGitPath(path) ==
    LET cs == Components(path)
    IN  \E i \in 1..Len(cs) : cs[i] = <<".", "g", "i", "t">>

\* only the path's own name is tested
IsHiddenPath_name_only(path) == StartsWith(UnwrapOrDefault(FileName(path)), <<".">>)

IsHiddenPath(path) ==
    LET cs == Components(path)
    IN  \E i \in 1..Len(cs) : StartsWith(cs[i], <<".">>)

\* the denylist applied to entries of any type
IsIgnoredDir_any_type(fsys, path, ignore) ==
    \E i \in 1..Len(ignore) : ignore[i] = UnwrapOrDefault(FileName(path))

IsIgnoredDir(fsys, path, ignore) ==
    /\ IsDir(fsys, path)
    /\ LET dir_name == UnwrapOrDefault(FileName(path))
       IN  \E i \in 1..Len(ignore) : ignore[i] = dir_name

IsSidecarFile(path) == Extension(path) = Some(<<"d", "v", "c">>)

\* the rules without the one for symbolic links
Skipped_symlinks_kept(fsys, path, ignore) ==
    \/ IsGitPath(path)
    \/ IsHiddenPath(path)
    \/ IsIgnoredDir(fsys, path, ignore)
    \/ IsSidecarFile(path)

Skipped(fsys, path, ignore) ==
    \/ IsGitPath(path)
    \/ IsHiddenPath(path)
    \/ IsIgnoredDir(fsys, path, ignore)
    \/ IsSidecarFile(path)
    \/ IsSymlink(fsys, path)

\* the entry without the override by the artifact map
MakeEntry_no_override(fsys, path, root, gmap, dmap) ==
    LET has_dvc_file == check_dvc_file(fsys, path)
    IN  [ path |-> get_relative_path(path, root),
          size |-> fsys[Resolve(path)].size,
          is_directory |-> IsDir(fsys, path),
          has_dvc_file |-> has_dvc_file,
          git_status |-> get_git_status_for_path(fsys, path, root, gmap, has_dvc_file) ]

\* the artifact map consulted whether or not the entry has a sidecar
MakeEntry_override_always(fsys, path, root, gmap, dmap) ==
    LET has_dvc_file == check_dvc_file(fsys, path)
        ledger_status == get_git_status_for_path(fsys, path, root, gmap, has_dvc_file)
        relative_path == get_relative_path(path, root)
        git_status == IF relative_path \in DOMAIN dmap
                        THEN dmap[relative_path] ELSE ledger_status
    IN  [ path |-> relative_path,
          size |-> fsys[Resolve(path)].size,
          is_directory |-> IsDir(fsys, path),
          has_dvc_file |-> has_dvc_file,
          git_status |-> git_status ]

\* the FileEntry pushed for a path that is not skipped (file.rs:267-291)
MakeEntry(fsys, path, root, gmap, dmap) ==
    LET has_dvc_file == check_dvc_file(fsys, path)
        ledger_status == get_git_status_for_path(fsys, path, root, gmap, has_dvc_file)
        relative_path == get_relative_path(path, root)
        git_status == IF has_dvc_file /\ relative_path \in DOMAIN dmap
                        THEN dmap[relative_path] ELSE ledger_status
    IN  [ path |-> relative_path,
          size |-> fsys[Resolve(path)].size,
          is_directory |-> IsDir(fsys, path),
          has_dvc_file |-> has_dvc_file,
          git_status |-> git_status ]

\* byte values of the characters used in paths
Ord(c) ==
    CASE c = "." -> 46 [] c = "/" -> 47
      [] c = "a" -> 97 [] c = "b" -> 98 [] c = "c" -> 99 [] c = "d" -> 100
      [] c = "g" -> 103 [] c = "h" -> 104 [] c = "i" -> 105 [] c = "l" -> 108
      [] c = "r" -> 114 [] c = "s" -> 115 [] c = "t" -> 116 [] c = "v" -> 118
      [] c = "w" -> 119 [] c = "x" -> 120
      [] OTHER -> 0

\* String::cmp(a, b) = Less: byte-wise lexicographic, a proper prefix is less
RECURSIVE StrLess(_, _)
StrLess(a, b) ==
    IF b = <<>> THEN FALSE
    ELSE IF a = <<>> THEN TRUE
    ELSE IF Ord(Head(a)) # Ord(Head(b)) THEN Ord(Head(a)) < Ord(Head(b))
    ELSE StrLess(Tail(a), Tail(b))

\* e put into the sorted sequence s after every element that is not greater
RECURSIVE InsertSorted(_, _)
InsertSorted(s, e) ==
    IF s = <<>> THEN <<e>>
    ELSE IF StrLess(e.path, Head(s).path) THEN <<e>> \o s
    ELSE <<Head(s)>> \o InsertSorted(Tail(s), e)

RECURSIVE SortFrom(_, _)
SortFrom(s, acc) ==
    IF s = <<>> THEN acc ELSE SortFrom(Tail(s), InsertSorted(acc, Head(s)))

\* the entries left in the order of the walk
SortByPath_walk_order(s) == s

\* the entries in descending order of path
SortByPath_descending(s) == [i \in 1..Len(s) |-> SortFrom(s, <<>>)[Len(s) + 1 - i]]

\* files.sort_by(|a, b| a.path.cmp(&b.path)): a stable sort on the path field
SortByPath(s) == SortFrom(s, <<>>)

\* the value returned by a call
Ok(fl) == [ok |-> TRUE, files |-> fl]
Err(msg) == [ok |-> FALSE, files |-> <<>>, error |-> msg]

\* a level of the walk's stack: the entries of an opened directory not yet
\* yielded, or the error of a directory that could not be listed
RECURSIVE PopEmpty(_)
PopEmpty(st) ==
    IF st # <<>> /\ st[Len(st)].pending = {} /\ ~st[Len(st)].err
      THEN PopEmpty(SubSeq(st, 1, Len(st) - 1)) ELSE st

OpenDir(fsys, path) ==
    IF fsys[Resolve(path)].access = "no_list"
      THEN [pending |-> {}, err |-> TRUE]
      ELSE [pending |-> ChildPaths(fsys, path), err |-> FALSE]

\* list_file_entries on its own is called twice over the same arguments; as
\* the last step of get_file_tree_structure it is called once
NextPc == IF Len(returned) = 0 /\ dvc_run = "idle" THEN "call" ELSE "done"

\* entry of the call: `if !dir_path.exists() { return Ok(files) }`, else the
\* walk starts at dir_path itself
StartWalk ==
    /\ rpc = "call"
    /\ files' = <<>>
    /\ visited' = EmptyMap
    /\ IF ~Exists(fs, dir_path)
         THEN /\ returned' = Append(returned, Ok(<<>>))
              /\ rpc' = NextPc
              /\ stack' = <<>>
         ELSE /\ stack' = << [pending |-> {dir_path}, err |-> FALSE] >>
              /\ rpc' = "walk"
              /\ UNCHANGED returned
    /\ UNCHANGED walkArgs

\* one iteration of `for entry in WalkDir::new(dir_path)` over an entry that
\* was read: the walk yields any remaining entry of the directory on top of
\* its stack and descends into it when it is a directory, whether or not the
\* body skips it; `entry.metadata()?` returns the error of an entry whose
\* metadata cannot be read
WalkEntry ==
    /\ rpc = "walk"
    /\ stack # <<>>
    /\ ~stack[Len(stack)].err
    /\ \E path \in stack[Len(stack)].pending :
         LET rest == [stack EXCEPT ![Len(stack)].pending = @ \ {path}]
             down == IF IsDir(fs, path) THEN Append(rest, OpenDir(fs, path)) ELSE rest
         IN  /\ visited' = Insert(visited, Resolve(path),
                                   IF Resolve(path) \in DOMAIN visited
                                     THEN visited[Resolve(path)] + 1 ELSE 1)
             /\ IF Skipped(fs, path, ignore_prefixes)
                  THEN /\ stack' = PopEmpty(down)
                       /\ UNCHANGED <<files, rpc, returned>>
                ELSE IF fs[Resolve(path)].access = "no_meta"
                  THEN /\ returned' = Append(returned, Err("Failed to get metadata"))
                       /\ rpc' = NextPc
                       /\ stack' = <<>>
                       /\ UNCHANGED files
                ELSE /\ stack' = PopEmpty(down)
                     /\ files' = Append(files, MakeEntry(fs, path, repo_root,
                                                         git_status_map, dvc_status_map))
                     /\ UNCHANGED <<rpc, returned>>
    /\ UNCHANGED walkArgs

\* one iteration over an item the walk could not read: `entry.map_err(..)?`
WalkError ==
    /\ rpc = "walk"
    /\ stack # <<>>
    /\ stack[Len(stack)].err
    /\ returned' = Append(returned, Err("Failed to read directory entry"))
    /\ rpc' = NextPc
    /\ stack' = <<>>
    /\ UNCHANGED <<files, visited>>
    /\ UNCHANGED walkArgs

\* after the loop: sort and return; a second call over the same arguments follows
SortAndReturn ==
    /\ rpc = "walk"
    /\ stack = <<>>
    /\ returned' = Append(returned, Ok(SortByPath(files)))
    /\ rpc' = NextPc
    /\ UNCHANGED <<stack, files, visited>>
    /\ UNCHANGED walkArgs

----------------------------------------------------------------------------
(* Inputs of update_git_status_map: the output of the two git commands *)

\* at most this many paths in the committed snapshot / lines in the status output
MaxTracked == 2
MaxLines == 2

\* repository paths, in the order git prints them
LedgerPaths == << <<"a", ".", "t">>, <<"a", "b">>, <<"b">> >>

\* XY codes git prints for a changed path
PorcelainCodes == { <<" ", "M">>, <<" ", "D">>, <<"M", " ">>, <<"?", "?">>,
                    <<"M", "M">>, <<"U", "U">> }

\* `XY <path>`
PorcelainLine(xy, p) == <<xy[1], xy[2], " ">> \o p

PathOfLine(line) == Skip(line, 3)

IsSome(v) == v # <<>>

\* the sequences of ls-tree lines: every sub-list of LedgerPaths
SnapshotOutputs ==
    { SelectSeq(LedgerPaths, LAMBDA p : p \in S) :
        S \in { T \in SUBSET { LedgerPaths[i] : i \in 1..Len(LedgerPaths) } :
                  Cardinality(T) <= MaxTracked } }

\* the status outputs: at most one line per path
PorcelainOutputs ==
    LET idx == 1..Len(LedgerPaths)
        choices == { f \in [idx -> PorcelainCodes \cup {<<>>}] :
                       Cardinality({ i \in idx : IsSome(f[i]) }) <= MaxLines }
        all(f) == [i \in idx |-> IF IsSome(f[i]) THEN PorcelainLine(f[i], LedgerPaths[i])
                                 ELSE <<>>]
    IN  { SelectSeq(all(f), IsSome) : f \in choices }

LedgerInit ==
    /\ git_fail \in {"none", "ls-tree", "status"}
    /\ snapshot \in SnapshotOutputs
    /\ porcelain \in PorcelainOutputs
    /\ tracked_rest = <<>>
    /\ lines_rest = <<>>
    /\ status_map = EmptyMap
    /\ lpc = "ls-tree"

LedgerIdle ==
    /\ git_fail = "none"
    /\ snapshot = <<>>
    /\ porcelain = <<>>
    /\ tracked_rest = <<>>
    /\ lines_rest = <<>>
    /\ status_map = EmptyMap
    /\ lpc = "idle"

ParseIdle ==
    /\ px = " "
    /\ py = " "
    /\ pcode = "idle"

----------------------------------------------------------------------------
(* Inputs of list_file_entries *)

\* at most this many filesystem entries below the browse root
MaxEntries == 3

RepoRoot == <<"/", "r">>

\* the directories browsed: the repository root, a subdirectory of it, and a
\* subdirectory lying under a dot-prefixed directory
BrowseRoots ==
    { <<"/", "r">>, <<"/", "r", "/", "w">>, <<"/", "r", "/", ".", "c", "/", "w">> }

Node(rel, kind, size, access) == [rel |-> rel, kind |-> kind, size |-> size, access |-> access]

\* a symbolic link and the directory it points to, both relative to the
\* browse root; the target <<>> is the browse root itself, an ancestor of the link
Link(rel, target) ==
    [rel |-> rel, kind |-> "symlink", size |-> 1, access |-> "ok", target |-> target]

\* the entries a tree may hold, by path relative to the browse root
Candidates ==
    { Node(<<"d">>, "file", 3, "ok"),
      Node(<<"d">>, "file", 3, "no_meta"),
      Node(<<"d", ".", "d", "v", "c">>, "file", 1, "ok"),
      Node(<<"a", ".", "b">>, "file", 3, "ok"),
      Node(<<"a", ".", "b", ".", "d", "v", "c">>, "file", 1, "ok"),
      Node(<<"t">>, "file", 3, "ok"),
      Node(<<"t">>, "dir", 0, "ok"),
      Node(<<"t", "/", "x">>, "file", 3, "ok"),
      Node(<<".", "h">>, "dir", 0, "ok"),
      Node(<<".", "h", "/", "x">>, "file", 3, "ok"),
      Link(<<"l">>, <<>>),
      Node(<<"s">>, "dir", 0, "ok"),
      Node(<<"s">>, "dir", 0, "no_list"),
      Node(<<"s", "/", "s", ".", "d", "v", "c">>, "file", 1, "ok") }

IsTree(S) ==
    /\ \A m, n \in S : m.rel = n.rel => m = n
    /\ \A n \in S : ParentPath(n.rel) # <<>> =>
          \E m \in S : m.rel = ParentPath(n.rel) /\ m.kind = "dir"

Trees == { S \in SUBSET Candidates : Cardinality(S) <= MaxEntries /\ IsTree(S) }

NoFs == [q \in {} |-> Node(<<>>, "dir", 0, "ok")]

\* the filesystem holding the browse root and the entries of S below it
FsOf(root, S) ==
    [q \in {root} \cup { Join(root, n.rel) : n \in S } |->
        IF q = root THEN Node(<<>>, "dir", 0, "ok")
        ELSE CHOOSE n \in S : Join(root, n.rel) = q]

\* the key of the entry rel of the browse root in the two status maps
RelKey(root, rel) == get_relative_path(Join(root, rel), RepoRoot)

MapOf(root, rows) ==
    [k \in { RelKey(root, r[1]) : r \in rows } |->
        (CHOOSE r \in rows : RelKey(root, r[1]) = k)[2]]

LedgerRows ==
    { << <<"a", ".", "b", ".", "d", "v", "c">>, "staged" >>,
      << <<"s", "/", "s", ".", "d", "v", "c">>, "deleted" >>,
      << <<"d", ".", "d", "v", "c">>, "conflict" >>,
      << <<"a", ".", "b">>, "modified" >>,
      << <<"d">>, "pushed" >>,
      << <<"t">>, "partially_staged" >> }

LedgerMaps(root) ==
    { EmptyMap, MapOf(root, LedgerRows) }

ArtifactRows ==
    { << <<"a", ".", "b">>, "modified" >>,
      << <<"d">>, "added" >>,
      << <<"s">>, "not in cache" >>,
      << <<"t">>, "renamed" >> }

ArtifactMaps(root) == { EmptyMap, MapOf(root, ArtifactRows) }

IgnoreLists == { <<>>, << <<"t">> >> }

\* under a browse root with a dot-prefixed segment no entry reaches the
\* status lookup, and the empty maps stand for all maps
WalkInit ==
    /\ repo_root = RepoRoot
    /\ dir_path \in BrowseRoots
    /\ fs \in {NoFs} \cup { FsOf(dir_path, S) : S \in Trees }
    /\ git_status_map \in (IF IsHiddenPath(dir_path) THEN {EmptyMap} ELSE LedgerMaps(dir_path))
    /\ dvc_status_map \in (IF IsHiddenPath(dir_path) THEN {EmptyMap} ELSE ArtifactMaps(dir_path))
    /\ ignore_prefixes \in IgnoreLists
    /\ stack = <<>>
    /\ files = <<>>
    /\ returned = <<>>
    /\ visited = EmptyMap
    /\ rpc = "call"

WalkIdle ==
    /\ repo_root = <<>>
    /\ dir_path = <<>>
    /\ fs = NoFs
    /\ git_status_map = EmptyMap
    /\ dvc_status_map = EmptyMap
    /\ ignore_prefixes = <<>>
    /\ stack = <<>>
    /\ files = <<>>
    /\ returned = <<>>
    /\ visited = EmptyMap
    /\ rpc = "idle"

(* Inputs of the sidecar resolver *)

\* file names of at most this many characters
MaxNameLen == 4

NameChars == {"d", "."}

FileNames ==
    { n \in UNION { [1..k -> NameChars] : k \in 1..MaxNameLen } :
        n \notin { <<".">>, <<".", ".">> } }

SidecarDirs == { <<>>, <<"/", "r">> }

SidecarInit ==
    /\ sc_path \in { Join(dd, n) : dd \in SidecarDirs, n \in FileNames }
    /\ sc_is_file \in BOOLEAN
    /\ sc_dvc_file = None

SidecarIdle ==
    /\ sc_path = <<>>
    /\ sc_is_file = FALSE
    /\ sc_dvc_file = <<"idle">>

----------------------------------------------------------------------------
(* Selection Set: SelectedFiles (state.rs) and its four commands (file.rs) *)

\* at most this many commands in a sequential run / in a concurrent run
MaxHistory == 5
MaxCalls == 3

\* the number of concurrent callers
NumCallers == 2

Callers == 1..NumCallers

SelPaths == {"x", "y"}

Cmd(op, path) == [op |-> op, path |-> path]

Commands ==
    { Cmd("add", p) : p \in SelPaths } \cup { Cmd("remove", p) : p \in SelPaths }
        \cup { Cmd("list", ""), Cmd("clear", "") }

Call(cmd, out) == [op |-> cmd.op, path |-> cmd.path, out |-> out]

\* an add that removes a path already present
add_path_toggle(set, path) == IF path \in set THEN set \ {path} ELSE set \cup {path}

\* SelectedFiles::add_path: HashSet::insert
add_path(set, path) == set \cup {path}

\* SelectedFiles::remove_path: HashSet::remove
remove_path(set, path) == set \ {path}

\* SelectedFiles::clear
clear(set) == {}

\* the set a command leaves behind
Effect(cmd, set) ==
    CASE cmd.op = "add" -> add_path(set, cmd.path)
      [] cmd.op = "remove" -> remove_path(set, cmd.path)
      [] cmd.op = "clear" -> clear(set)
      [] OTHER -> set

\* the vectors `paths.iter().cloned().collect()` can give: the elements of
\* the set, each once, in any order
Collect(set) ==
    { v \in [1..Cardinality(set) -> set] : \A i, j \in 1..Cardinality(set) : v[i] = v[j] => i = j }

\* the values a command can return on the set it read
Outputs(cmd, set) == IF cmd.op = "list" THEN Collect(set) ELSE { <<>> }

SelectionInit ==
    /\ paths = {}
    /\ history = <<>>
    /\ mutex = 0
    /\ cpc = [c \in Callers |-> "idle"]
    /\ ccmd = [c \in Callers |-> Cmd("list", "")]
    /\ clocal = [c \in Callers |-> {}]

SelectionIdle ==
    /\ paths = {}
    /\ history = <<>>
    /\ mutex = 0
    /\ cpc = <<>>
    /\ ccmd = <<>>
    /\ clocal = <<>>

(* One caller at a time: each command is a whole handler, lock to return *)

SelectionSeqInit ==
    /\ paths = {}
    /\ history = <<>>
    /\ mutex = 0
    /\ cpc = <<>>
    /\ ccmd = <<>>
    /\ clocal = <<>>

add_selected_file ==
    /\ Len(history) < MaxHistory
    /\ \E path \in SelPaths :
          /\ paths' = add_path(paths, path)
          /\ history' = Append(history, Call(Cmd("add", path), <<>>))
    /\ UNCHANGED <<mutex, cpc, ccmd, clocal>>

remove_selected_file ==
    /\ Len(history) < MaxHistory
    /\ \E path \in SelPaths :
          /\ paths' = remove_path(paths, path)
          /\ history' = Append(history, Call(Cmd("remove", path), <<>>))
    /\ UNCHANGED <<mutex, cpc, ccmd, clocal>>

get_selected_files ==
    /\ Len(history) < MaxHistory
    /\ \E out \in Collect(paths) :
          history' = Append(history, Call(Cmd("list", ""), out))
    /\ UNCHANGED <<paths, mutex, cpc, ccmd, clocal>>

clear_selected_files ==
    /\ Len(history) < MaxHistory
    /\ paths' = clear(paths)
    /\ history' = Append(history, Call(Cmd("clear", ""), <<>>))
    /\ UNCHANGED <<mutex, cpc, ccmd, clocal>>

(* Several callers: the steps of a command *)

\* a caller that takes the lock although another caller holds it
Lock_no_wait(c, cmd) ==
    /\ cpc[c] = "idle"
    /\ Len(history) + Cardinality({ d \in Callers : cpc[d] # "idle" }) < MaxCalls
    /\ mutex' = c
    /\ cpc' = [cpc EXCEPT ![c] = "locked"]
    /\ ccmd' = [ccmd EXCEPT ![c] = cmd]
    /\ UNCHANGED <<paths, history, clocal>>

\* `state.lock()`: caller c invokes cmd and gets the mutex once it is free
Lock(c, cmd) ==
    /\ cpc[c] = "idle"
    /\ Len(history) + Cardinality({ d \in Callers : cpc[d] # "idle" }) < MaxCalls
    /\ mutex = 0
    /\ mutex' = c
    /\ cpc' = [cpc EXCEPT ![c] = "locked"]
    /\ ccmd' = [ccmd EXCEPT ![c] = cmd]
    /\ UNCHANGED <<paths, history, clocal>>

\* the command reads the set through the guard
Read(c) ==
    /\ cpc[c] = "locked"
    /\ clocal' = [clocal EXCEPT ![c] = paths]
    /\ cpc' = [cpc EXCEPT ![c] = "read"]
    /\ UNCHANGED <<paths, history, mutex, ccmd>>

\* the command writes the set it computed from what it read
Write(c) ==
    /\ cpc[c] = "read"
    /\ paths' = IF ccmd[c].op = "list" THEN paths ELSE Effect(ccmd[c], clocal[c])
    /\ cpc' = [cpc EXCEPT ![c] = "written"]
    /\ UNCHANGED <<history, mutex, ccmd, clocal>>

\* the command returns: the guard is dropped, the caller gets the value
Return(c) ==
    /\ cpc[c] = "written"
    /\ \E out \in Outputs(ccmd[c], clocal[c]) :
          history' = Append(history, Call(ccmd[c], out))
    /\ mutex' = IF mutex = c THEN 0 ELSE mutex
    /\ cpc' = [cpc EXCEPT ![c] = "idle"]
    /\ UNCHANGED <<paths, ccmd, clocal>>

----------------------------------------------------------------------------
(* Path normalizer: get_relative_path on its own *)

\* paths of at most this many segments below their prefix
MaxSegments == 2

SegmentNames == { <<"a">>, <<"r">>, <<"w">>, <<"a", "\\", "b">> }

\* the repository roots `git rev-parse --show-toplevel` prints: absolute paths
NormRoots == { <<"/", "r">>, <<"/", "r", "/", "w">> }

NormPrefixes == { <<"/", "r">>, <<"/", "r", "/", "w">>, <<"/", "q">>, <<"r">> }

RECURSIVE JoinAll(_, _)
JoinAll(p, segs) == IF segs = <<>> THEN p ELSE JoinAll(Join(p, Head(segs)), Tail(segs))

NormPaths ==
    { JoinAll(pre, segs) :
        pre \in NormPrefixes,
        segs \in UNION { [1..k -> SegmentNames] : k \in 0..MaxSegments } }

NormInit ==
    /\ np_path \in NormPaths
    /\ np_root \in NormRoots
    /\ np_once = None
    /\ np_twice = None

NormIdle ==
    /\ np_path = <<>>
    /\ np_root = <<>>
    /\ np_once = <<"idle">>
    /\ np_twice = <<"idle">>

Normalize ==
    /\ np_once = None
    /\ np_once' = Some(get_relative_path(np_path, np_root))
    /\ UNCHANGED <<np_path, np_root, np_twice>>

NormalizeAgain ==
    /\ np_once # None
    /\ np_twice = None
    /\ np_twice' = Some(get_relative_path(np_once[1], np_root))
    /\ UNCHANGED <<np_path, np_root, np_once>>

----------------------------------------------------------------------------
(* dvc_diff (dvc.rs): the report of the diff script turned into a status map *)

\* at most this many entries in a category
MaxItems == 1

\* the `categories` table: report key and status, in the order of the loop
Categories == << "added", "deleted", "modified", "renamed", "not in cache" >>

CategoryKeys == { Categories[i] : i \in 1..Len(Categories) }

\* the table with the last status spelt with underscores
CategoryStatus_underscored(cat_key) == IF cat_key = "not in cache" THEN "not_in_cache" ELSE cat_key

CategoryStatus(cat_key) == cat_key

\* an entry of a category: `path` is a string, a value of another type, or
\* missing; `path_old` is the old path of a renamed entry
DiffEntry(path_type, path, path_old) ==
    [path_type |-> path_type, path |-> path, path_old |-> path_old]

DiffEntries ==
    { DiffEntry("string", <<"a", ".", "b">>, <<>>),
      DiffEntry("string", <<"d">>, <<"s">>),
      DiffEntry("missing", <<>>, <<>>),
      DiffEntry("number", <<>>, <<>>) }

\* the value under a category key: absent, not an array, or an array
CatValue(shape, items) == [shape |-> shape, items |-> items]

EmptyArray == CatValue("array", <<>>)

CatValues ==
    { CatValue("absent", <<>>), CatValue("scalar", <<>>) }
        \cup { CatValue("array", items) :
                 items \in UNION { [1..k -> DiffEntries] : k \in 0..MaxItems } }

\* a second category of the same report: empty, or one entry for a path
SecondValues == { EmptyArray, CatValue("array", << DiffEntry("string", <<"a", ".", "b">>, <<>>) >>) }

\* the JSON documents: an object holding the categories, or another value
Report(top, cats) == [top |-> top, cats |-> cats]

EmptyReport == Report("object", [c \in CategoryKeys |-> EmptyArray])

\* the reports: a document that is no object, or an object in which one
\* category holds any value, a second one holds SecondValues, and the other
\* three are empty arrays
Reports ==
    { Report("array", [c \in CategoryKeys |-> CatValue("absent", <<>>)]) }
        \cup { Report("object", [c \in CategoryKeys |->
                                   IF c = c1 THEN v1 ELSE IF c = c2 THEN v2 ELSE EmptyArray]) :
                 c1 \in CategoryKeys, c2 \in CategoryKeys, v1 \in CatValues, v2 \in SecondValues }

\* the closure normalize_path
normalize_path(p) == ReplaceBackslash(p)

\* the old path of an entry that has one inserted beside its path
RECURSIVE InsertEntries_old_path_too(_, _, _)
InsertEntries_old_path_too(m, items, status) ==
    IF items = <<>> THEN m
    ELSE LET e == Head(items)
             m1 == IF e.path_type = "string" THEN Insert(m, normalize_path(e.path), status) ELSE m
             m2 == IF e.path_old # <<>> THEN Insert(m1, normalize_path(e.path_old), status) ELSE m1
         IN  InsertEntries_old_path_too(m2, Tail(items), status)

\* the inner loop: the entries of one category inserted into the map
RECURSIVE InsertEntries(_, _, _)
InsertEntries(m, items, status) ==
    IF items = <<>> THEN m
    ELSE InsertEntries(
             IF Head(items).path_type = "string"
               THEN Insert(m, normalize_path(Head(items).path), status) ELSE m,
             Tail(items), status)

\* the outer loop from category i on: `json.get(key).and_then(as_array)`
\* gives nothing for a missing key, a value that is no array, or a document
\* that is no object, and the category is passed over
RECURSIVE InsertCategories(_, _, _)
InsertCategories(m, report, i) ==
    IF i > Len(Categories) THEN m
    ELSE LET v == report.cats[Categories[i]]
             arr == report.top = "object" /\ v.shape = "array"
         IN  InsertCategories(
                 IF arr THEN InsertEntries(m, v.items, CategoryStatus(Categories[i])) ELSE m,
                 report, i + 1)

DvcOk(m) == [ok |-> TRUE, map |-> m, error |-> ""]
DvcErr(msg) == [ok |-> FALSE, map |-> EmptyMap, error |-> msg]

\* the value dvc_diff returns
dvc_diff(run, report) ==
    CASE run = "no_script" -> DvcErr("script not found")
      [] run = "spawn_failed" -> DvcErr("Failed to run dvc_diff_script.py")
      [] run = "exit_nonzero" -> DvcErr("stderr")
      [] run = "bad_json" -> DvcErr("Failed to parse dvc diff JSON")
      [] OTHER -> DvcOk(InsertCategories(EmptyMap, report, 1))

DvcRuns == {"ok", "no_script", "spawn_failed", "exit_nonzero", "bad_json"}

DvcInit ==
    /\ dvc_run \in DvcRuns
    /\ dvc_report \in (IF dvc_run = "ok" THEN Reports ELSE {EmptyReport})
    /\ dvc_result = None

DvcIdle ==
    /\ dvc_run = "idle"
    /\ dvc_report = EmptyReport
    /\ dvc_result = None

DvcDiff ==
    /\ dvc_result = None
    /\ dvc_run # "idle"
    /\ dvc_result' = Some(dvc_diff(dvc_run, dvc_report))
    /\ UNCHANGED <<dvc_run, dvc_report>>

----------------------------------------------------------------------------
(* get_file_tree_structure: the two aggregators, then list_file_entries *)

\* at most this many filesystem entries below the browse root of a whole query
MaxListEntries == 2

ListTrees == { S \in Trees : Cardinality(S) <= MaxListEntries }

\* the whole of update_git_status_map on the output of the two commands
RECURSIVE SeedAll(_, _)
SeedAll(m, lines) ==
    IF lines = <<>> THEN m
    ELSE SeedAll(Insert(m, TrackedPath(Head(lines)), "pushed"), Tail(lines))

RECURSIVE ScanAll(_, _)
ScanAll(m, lines) ==
    IF lines = <<>> THEN m
    ELSE LET e == ScanEntry(Head(lines))
         IN  ScanAll(IF e = <<>> THEN m ELSE Insert(m, e[1], e[2]), Tail(lines))

update_git_status_map(snap, porc) == ScanAll(SeedAll(EmptyMap, snap), porc)

\* the error get_repo_git_status returns when a git command fails
GitError(fail) ==
    CASE fail = "rev-parse" -> "Not a git repository"
      [] fail = "empty-root" -> "Invalid git repository root"
      [] fail = "ls-tree" -> "Git ls-tree command failed"
      [] OTHER -> "Git status command failed"

\* what git prints about the entries below the browse root: the snapshot
\* lines and the status lines, paths relative to the repository root
LedgerOutput(snap, porc) == [snapshot |-> snap, porcelain |-> porc]

LedgerOutputs(root) ==
    LET ab == RelKey(root, <<"a", ".", "b">>)
        abdvc == RelKey(root, <<"a", ".", "b", ".", "d", "v", "c">>)
        d == RelKey(root, <<"d">>)
    IN  { LedgerOutput(<<>>, <<>>),
          LedgerOutput(<<abdvc, d>>, << PorcelainLine(<<"M", " ">>, abdvc) >>),
          LedgerOutput(<<d>>, << PorcelainLine(<<"?", "?">>, ab),
                                 PorcelainLine(<<"A", " ">>, abdvc),
                                 PorcelainLine(<<"U", "U">>, d) >>),
          LedgerOutput(<<ab, d>>, << PorcelainLine(<<" ", "M">>, d),
                                     PorcelainLine(<<"A", "U">>, ab) >>) }

\* the reports of the diff script used for a whole query
OneEntry(c, path) ==
    Report("object", [k \in CategoryKeys |->
                         IF k = c THEN CatValue("array", << DiffEntry("string", path, <<>>) >>)
                         ELSE EmptyArray])

ListReports(root) ==
    { EmptyReport,
      OneEntry("added", RelKey(root, <<"a", ".", "b">>)),
      OneEntry("not in cache", RelKey(root, <<"a", ".", "b">>)),
      OneEntry("modified", RelKey(root, <<"d">>)),
      Report("object", [k \in CategoryKeys |-> CatValue("absent", <<>>)]) }

\* `ignore_prefixes` of get_file_tree_structure; "t" stands for its "target"
DefaultIgnore == << <<"t">> >>

ListInit ==
    /\ dir_path \in BrowseRoots
    /\ fs \in { FsOf(dir_path, S) : S \in ListTrees }
    /\ git_fail \in {"none", "rev-parse", "empty-root", "ls-tree", "status"}
    /\ \E out \in (IF git_fail = "none" THEN LedgerOutputs(dir_path)
                   ELSE { LedgerOutput(<<>>, <<>>) }) :
          snapshot = out.snapshot /\ porcelain = out.porcelain
    /\ tracked_rest = <<>>
    /\ lines_rest = <<>>
    /\ status_map = EmptyMap
    /\ lpc = "idle"
    /\ dvc_run \in DvcRuns
    /\ dvc_report \in (IF dvc_run = "ok" THEN ListReports(dir_path) ELSE {EmptyReport})
    /\ dvc_result = None
    /\ repo_root = <<>>
    /\ git_status_map = EmptyMap
    /\ dvc_status_map = EmptyMap
    /\ ignore_prefixes = <<>>
    /\ stack = <<>>
    /\ files = <<>>
    /\ returned = <<>>
    /\ visited = EmptyMap
    /\ rpc = "git"

\* `get_repo_git_status(path)?`
GetRepoGitStatus ==
    /\ rpc = "git"
    /\ IF git_fail # "none"
         THEN /\ returned' = Append(returned, Err(GitError(git_fail)))
              /\ rpc' = "done"
              /\ UNCHANGED <<repo_root, git_status_map>>
         ELSE /\ repo_root' = RepoRoot
              /\ git_status_map' = update_git_status_map(snapshot, porcelain)
              /\ rpc' = "dvc"
              /\ UNCHANGED returned
    /\ UNCHANGED <<fs, dir_path, dvc_status_map, ignore_prefixes, stack, files, visited>>
    /\ UNCHANGED <<ledgerVars, dvcVars>>

\* a failed diff taken for an empty map
CallDvcDiff_error_ignored ==
    /\ rpc = "dvc"
    /\ dvc_result' = Some(dvc_diff(dvc_run, dvc_report))
    /\ dvc_status_map' = dvc_diff(dvc_run, dvc_report).map
    /\ ignore_prefixes' = DefaultIgnore
    /\ rpc' = "call"
    /\ UNCHANGED <<fs, dir_path, repo_root, git_status_map, stack, files, returned, visited>>
    /\ UNCHANGED <<ledgerVars, dvc_run, dvc_report>>

\* `dvc::dvc_diff(path)?`, then the call of list_file_entries is set up
CallDvcDiff ==
    /\ rpc = "dvc"
    /\ dvc_result' = Some(dvc_diff(dvc_run, dvc_report))
    /\ IF ~dvc_diff(dvc_run, dvc_report).ok
         THEN /\ returned' = Append(returned, Err(dvc_diff(dvc_run, dvc_report).error))
              /\ rpc' = "done"
              /\ UNCHANGED <<dvc_status_map, ignore_prefixes>>
         ELSE /\ dvc_status_map' = dvc_diff(dvc_run, dvc_report).map
              /\ ignore_prefixes' = DefaultIgnore
              /\ rpc' = "call"
              /\ UNCHANGED returned
    /\ UNCHANGED <<fs, dir_path, repo_root, git_status_map, stack, files, visited>>
    /\ UNCHANGED <<ledgerVars, dvc_run, dvc_report>>

----------------------------------------------------------------------------
(* add_dvc_file (dvc.rs), followed by get_file_tree_structure *)

\* at most this many entries beside the file in the tree add_dvc_file works on
MaxAddEntries == 1

GitIgnore == <<".", "g", "i", "t", "i", "g", "n", "o", "r", "e">>

\* `file` made relative to the repository root: an absolute path has the
\* root stripped, which may fail; a relative path is taken as it is
relative_file_path(file, root) ==
    IF IsAbsolute(file) THEN StripPrefix(file, root) ELSE Some(file)

\* the path staged for the sidecar: `format!("{}.dvc", relative_file_path)`
\* unless the path has the extension dvc already
dvc_file(relative) ==
    IF Extension(relative) = Some(<<"d", "v", "c">>) THEN relative
    ELSE relative \o DotDvc

\* the filesystem with a regular file at the path rel of the root
WithFile(fsys, root, rel) ==
    [q \in (DOMAIN fsys) \cup {Resolve(Join(root, rel))} |->
        IF q \in DOMAIN fsys THEN fsys[q] ELSE Node(rel, "file", 1, "ok")]

\* what `git status --porcelain` prints for the two paths added to the index
StagedLines(staged) ==
    << PorcelainLine(<<"A", " ">>, GitIgnore), PorcelainLine(<<"A", " ">>, staged) >>

\* the value add_dvc_file returns
AddOk(staged) == [ok |-> TRUE, staged |-> staged, error |-> ""]
AddErr(msg) == [ok |-> FALSE, staged |-> <<>>, error |-> msg]

\* the names of the files added, and the `file` arguments naming them
AddNames == { <<"d">>, <<"a", ".", "b">>, <<"a", ".", "b", ".", "d", "v", "c">> }

AddFiles == AddNames \cup { Join(RepoRoot, n) : n \in AddNames } \cup { <<"/", "q", "/", "d">> }

\* the trees holding the file named by the argument beside other entries
AddTrees(file) ==
    LET name == UnwrapOrDefault(FileName(file))
    IN  { S \cup { Node(name, "file", 3, "ok") } :
            S \in { T \in Trees : /\ Cardinality(T) <= MaxAddEntries
                                  /\ \A n \in T : n.rel # name } }

AddRuns == {"ok", "dvc_add_failed", "open_failed", "index_failed"}

AddInit ==
    /\ add_file \in AddFiles
    /\ add_run \in AddRuns
    /\ add_result = None
    /\ dir_path = RepoRoot
    /\ fs \in { FsOf(dir_path, S) : S \in AddTrees(add_file) }
    /\ git_fail = "none"
    /\ snapshot \in { <<>>, << GitIgnore >> }
    /\ porcelain = <<>>
    /\ tracked_rest = <<>>
    /\ lines_rest = <<>>
    /\ status_map = EmptyMap
    /\ lpc = "idle"
    /\ dvc_run = "ok"
    /\ dvc_report \in ListReports(dir_path)
    /\ dvc_result = None
    /\ repo_root = <<>>
    /\ git_status_map = EmptyMap
    /\ dvc_status_map = EmptyMap
    /\ ignore_prefixes = <<>>
    /\ stack = <<>>
    /\ files = <<>>
    /\ returned = <<>>
    /\ visited = EmptyMap
    /\ rpc = "add"

AddIdle ==
    /\ add_file = <<>>
    /\ add_run = "idle"
    /\ add_result = None

\* add_dvc_file: the add script, run in the repository on `file`, writes the
\* sidecar beside the file and .gitignore; both are then added to the index,
\* the sidecar under the name dvc_file
AddDvcFile ==
    /\ rpc = "add"
    /\ LET relative == relative_file_path(add_file, RepoRoot)
           written == WithFile(WithFile(fs, RepoRoot, GitIgnore), RepoRoot, dvc_file(add_file))
       IN  IF add_run = "dvc_add_failed"
             THEN /\ add_result' = Some(AddErr("DVC add failed"))
                  /\ rpc' = "done"
                  /\ UNCHANGED <<fs, porcelain>>
           ELSE IF add_run = "open_failed"
             THEN /\ add_result' = Some(AddErr("Failed to open git repository"))
                  /\ rpc' = "done"
                  /\ fs' = written
                  /\ UNCHANGED porcelain
           ELSE IF relative = None
             THEN /\ add_result' = Some(AddErr("Failed to make file path relative"))
                  /\ rpc' = "done"
                  /\ fs' = written
                  /\ UNCHANGED porcelain
           ELSE IF add_run = "index_failed"
             THEN /\ add_result' = Some(AddErr("Failed to add to index"))
                  /\ rpc' = "done"
                  /\ fs' = written
                  /\ UNCHANGED porcelain
           ELSE /\ add_result' = Some(AddOk(dvc_file(relative[1])))
                /\ rpc' = "git"
                /\ fs' = written
                /\ porcelain' = StagedLines(dvc_file(relative[1]))
    /\ UNCHANGED <<add_file, add_run>>
    /\ UNCHANGED <<dir_path, repo_root, git_status_map, dvc_status_map, ignore_prefixes,
                   stack, files, returned, visited>>
    /\ UNCHANGED <<git_fail, snapshot, tracked_rest, lines_rest, status_map, lpc>>
    /\ UNCHANGED dvcVars

----------------------------------------------------------------------------
(* Specifications *)

InitParse ==
    /\ ParseInit
    /\ LedgerIdle
    /\ SidecarIdle
    /\ WalkIdle
    /\ SelectionIdle
    /\ NormIdle
    /\ DvcIdle
    /\ AddIdle

RestParse == <<ledgerVars, sidecarVars, walkVars, selVars, normVars, dvcVars, addVars>>

NextParse == ParseStatus /\ UNCHANGED RestParse

SpecParse == InitParse /\ [][NextParse]_vars

InitLedger ==
    /\ LedgerInit
    /\ ParseIdle
    /\ SidecarIdle
    /\ WalkIdle
    /\ SelectionIdle
    /\ NormIdle
    /\ DvcIdle
    /\ AddIdle

RestLedger == <<parseVars, sidecarVars, walkVars, selVars, normVars, dvcVars, addVars>>

NextLedger ==
    \/ LsTree /\ UNCHANGED RestLedger
    \/ SeedTracked /\ UNCHANGED RestLedger
    \/ GitStatus /\ UNCHANGED RestLedger
    \/ ScanLine /\ UNCHANGED RestLedger
    \/ ReturnMap /\ UNCHANGED RestLedger

SpecLedger == InitLedger /\ [][NextLedger]_vars

InitSidecar ==
    /\ SidecarInit
    /\ ParseIdle
    /\ LedgerIdle
    /\ WalkIdle
    /\ SelectionIdle
    /\ NormIdle
    /\ DvcIdle
    /\ AddIdle

RestSidecar == <<parseVars, ledgerVars, walkVars, selVars, normVars, dvcVars, addVars>>

NextSidecar == ResolveSidecar /\ UNCHANGED RestSidecar

SpecSidecar == InitSidecar /\ [][NextSidecar]_vars

InitReconcile ==
    /\ WalkInit
    /\ ParseIdle
    /\ LedgerIdle
    /\ SidecarIdle
    /\ SelectionIdle
    /\ NormIdle
    /\ DvcIdle
    /\ AddIdle

RestReconcile == <<parseVars, ledgerVars, sidecarVars, selVars, normVars, dvcVars, addVars>>

NextReconcile ==
    \/ StartWalk /\ UNCHANGED RestReconcile
    \/ WalkEntry /\ UNCHANGED RestReconcile
    \/ WalkError /\ UNCHANGED RestReconcile
    \/ SortAndReturn /\ UNCHANGED RestReconcile

SpecReconcile == InitReconcile /\ [][NextReconcile]_vars

InitSelectionSeq ==
    /\ SelectionSeqInit
    /\ ParseIdle
    /\ LedgerIdle
    /\ SidecarIdle
    /\ WalkIdle
    /\ NormIdle
    /\ DvcIdle
    /\ AddIdle

RestSelectionSeq == <<parseVars, ledgerVars, sidecarVars, walkVars, normVars, dvcVars, addVars>>

NextSelectionSeq ==
    \/ add_selected_file /\ UNCHANGED RestSelectionSeq
    \/ remove_selected_file /\ UNCHANGED RestSelectionSeq
    \/ get_selected_files /\ UNCHANGED RestSelectionSeq
    \/ clear_selected_files /\ UNCHANGED RestSelectionSeq

SpecSelectionSeq == InitSelectionSeq /\ [][NextSelectionSeq]_vars

InitSelection ==
    /\ SelectionInit
    /\ ParseIdle
    /\ LedgerIdle
    /\ SidecarIdle
    /\ WalkIdle
    /\ NormIdle
    /\ DvcIdle
    /\ AddIdle

RestSelection == <<parseVars, ledgerVars, sidecarVars, walkVars, normVars, dvcVars, addVars>>

NextSelection ==
    \/ (\E c \in Callers, cmd \in Commands : Lock(c, cmd)) /\ UNCHANGED RestSelection
    \/ (\E c \in Callers : Read(c)) /\ UNCHANGED RestSelection
    \/ (\E c \in Callers : Write(c)) /\ UNCHANGED RestSelection
    \/ (\E c \in Callers : Return(c)) /\ UNCHANGED RestSelection

SpecSelection == InitSelection /\ [][NextSelection]_vars

InitNormalize ==
    /\ NormInit
    /\ ParseIdle
    /\ LedgerIdle
    /\ SidecarIdle
    /\ WalkIdle
    /\ SelectionIdle
    /\ DvcIdle
    /\ AddIdle

RestNormalize == <<parseVars, ledgerVars, sidecarVars, walkVars, selVars, dvcVars, addVars>>

NextNormalize ==
    \/ Normalize /\ UNCHANGED RestNormalize
    \/ NormalizeAgain /\ UNCHANGED RestNormalize

SpecNormalize == InitNormalize /\ [][NextNormalize]_vars

InitDvcDiff ==
    /\ DvcInit
    /\ ParseIdle
    /\ LedgerIdle
    /\ SidecarIdle
    /\ WalkIdle
    /\ SelectionIdle
    /\ NormIdle
    /\ AddIdle

RestDvcDiff == <<parseVars, ledgerVars, sidecarVars, walkVars, selVars, normVars, addVars>>

NextDvcDiff == DvcDiff /\ UNCHANGED RestDvcDiff

SpecDvcDiff == InitDvcDiff /\ [][NextDvcDiff]_vars

InitListStatus == ListInit /\ ParseIdle /\ SidecarIdle /\ SelectionIdle /\ NormIdle /\ AddIdle

RestListStatus == <<parseVars, sidecarVars, selVars, normVars, addVars>>

NextListStatus ==
    \/ GetRepoGitStatus /\ UNCHANGED RestListStatus
    \/ CallDvcDiff /\ UNCHANGED RestListStatus
    \/ StartWalk /\ UNCHANGED <<RestListStatus, ledgerVars, dvcVars>>
    \/ WalkEntry /\ UNCHANGED <<RestListStatus, ledgerVars, dvcVars>>
    \/ WalkError /\ UNCHANGED <<RestListStatus, ledgerVars, dvcVars>>
    \/ SortAndReturn /\ UNCHANGED <<RestListStatus, ledgerVars, dvcVars>>

SpecListStatus == InitListStatus /\ [][NextListStatus]_vars

InitAddThenList == AddInit /\ ParseIdle /\ SidecarIdle /\ SelectionIdle /\ NormIdle

RestAddThenList == <<parseVars, sidecarVars, selVars, normVars>>

NextAddThenList ==
    \/ AddDvcFile /\ UNCHANGED RestAddThenList
    \/ GetRepoGitStatus /\ UNCHANGED <<RestAddThenList, addVars>>
    \/ CallDvcDiff /\ UNCHANGED <<RestAddThenList, addVars>>
    \/ StartWalk /\ UNCHANGED <<RestAddThenList, ledgerVars, dvcVars, addVars>>
    \/ WalkEntry /\ UNCHANGED <<RestAddThenList, ledgerVars, dvcVars, addVars>>
    \/ WalkError /\ UNCHANGED <<RestAddThenList, ledgerVars, dvcVars, addVars>>
    \/ SortAndReturn /\ UNCHANGED <<RestAddThenList, ledgerVars, dvcVars, addVars>>

SpecAddThenList == InitAddThenList /\ [][NextAddThenList]_vars

----------------------------------------------------------------------------
(* Snapshot and status-scan views of the inputs *)

SnapshotPaths == { snapshot[i] : i \in 1..Len(snapshot) }

ScanPaths == { PathOfLine(porcelain[i]) : i \in 1..Len(porcelain) }

\* the XY code of the status line for path p
ScanCode(p) ==
    LET i == CHOOSE j \in 1..Len(porcelain) : PathOfLine(porcelain[j]) = p
    IN  parse_git_status(porcelain[i][1], porcelain[i][2])

----------------------------------------------------------------------------
(* Properties of update_git_status_map (SpecLedger) *)

PorcelainLines == { porcelain[i] : i \in 1..Len(porcelain) }

\* C1: for every path p the committed snapshot seeds as pushed, if the status
\* output contains the line ' M p', the returned map maps p to modified, and
\* the line introduces no key other than p.
C1_WorktreeModifiedOverridesSeed ==
    lpc = "done" =>
        \A p \in SnapshotPaths :
            PorcelainLine(<<" ", "M">>, p) \in PorcelainLines =>
                /\ p \in DOMAIN status_map
                /\ status_map[p] = "modified"
                /\ DOMAIN status_map \subseteq SnapshotPaths \cup ScanPaths

\* C5: the returned map has as key set exactly the union of the snapshot paths
\* and the paths named by status lines; a path only in the snapshot maps to
\* pushed, a path named by a status line maps to that line's mapped code.
C5_KeySetIsUnion ==
    lpc = "done" =>
        /\ DOMAIN status_map = SnapshotPaths \cup ScanPaths
        /\ \A p \in DOMAIN status_map :
              status_map[p] = IF p \in ScanPaths THEN ScanCode(p) ELSE "pushed"

----------------------------------------------------------------------------
(* Properties of parse_git_status (SpecParse) *)

Parsed == pcode \notin {"unset", "idle"}

ConflictRow(x, y) == x = "U" \/ y = "U" \/ (x = "A" /\ y = "A") \/ (x = "D" /\ y = "D")

StagedRow(x, y) == x \in {"A", "M", "D", "R", "C"} /\ y = " "

PartialRow(x, y) == x \in {"M", "A"} /\ y = "M"

\* C3: '??' -> untracked; 'A ', 'M ', 'D ', 'R ', 'C ' -> staged; ' M' ->
\* modified; ' D' -> deleted; 'MM', 'AM' -> partially_staged; every pair in
\* none of the table's rows (conflict rows aside) -> other.
C3_CodeTable ==
    Parsed =>
        /\ (px = "?" /\ py = "?") => pcode = "untracked"
        /\ StagedRow(px, py) => pcode = "staged"
        /\ (px = " " /\ py = "M") => pcode = "modified"
        /\ (px = " " /\ py = "D") => pcode = "deleted"
        /\ PartialRow(px, py) => pcode = "partially_staged"
        /\ ( /\ ~(px = "?" /\ py = "?")
             /\ ~StagedRow(px, py)
             /\ ~(px = " " /\ py \in {"M", "D"})
             /\ ~PartialRow(px, py)
             /\ ~ConflictRow(px, py) ) => pcode = "other"

C3_Witness == px = " " /\ py = "M" /\ pcode = "modified"

\* C4: every pair with x = 'U' or y = 'U', and 'AA' and 'DD', maps to conflict.
C4_AnyUIsConflict ==
    (Parsed /\ ConflictRow(px, py)) => pcode = "conflict"

----------------------------------------------------------------------------
(* Properties of list_file_entries (SpecReconcile) *)

OkReturns == { i \in 1..Len(returned) : returned[i].ok }

\* the entries of every sequence returned so far
Emitted == UNION { { returned[i].files[j] : j \in 1..Len(returned[i].files) } : i \in OkReturns }

\* C2: an emitted entry with hasSidecar whose own normalized path is a key of
\* the artifact map carries the artifact map's value for that path, whatever
\* the ledger map holds for its sidecar path.
C2_ArtifactOverridesLedger ==
    \A e \in Emitted :
        (e.has_dvc_file /\ e.path \in DOMAIN dvc_status_map) =>
            e.git_status = dvc_status_map[e.path]

C2_Witness ==
    \E e \in Emitted :
        /\ e.has_dvc_file
        /\ e.path \in DOMAIN dvc_status_map
        /\ (e.path \o DotDvc) \in DOMAIN git_status_map
        /\ git_status_map[e.path \o DotDvc] = "staged"
        /\ e.git_status = "modified"

PathLeq(a, b) == ~StrLess(b, a)

\* C6: every returned sequence is in ascending byte-wise order of the path
\* field: adjacent entries e[i], e[i+1] have e[i].path <= e[i+1].path.
C6_SortedByPath ==
    \A i \in OkReturns :
        \A j \in 1..(Len(returned[i].files) - 1) :
            PathLeq(returned[i].files[j].path, returned[i].files[j + 1].path)

\* a call returned three entries or more that the walk met in another order
C6_Witness ==
    /\ Len(returned) = 1
    /\ returned[1].ok
    /\ Len(returned[1].files) >= 3
    /\ files # returned[1].files

\* C7: two consecutive calls with the same arguments over the unchanged tree
\* return identical sequences: the second call returns a sequence exactly when
\* the first did, with the same entries, field values and order.
C7_RepeatedCallIdentical ==
    Len(returned) = 2 =>
        /\ returned[1].ok = returned[2].ok
        /\ returned[1].files = returned[2].files

\* both calls returned, the second after a walk in another order than the
\* returned one
C7_Witness ==
    /\ Len(returned) = 2
    /\ returned[2].ok
    /\ Len(returned[2].files) >= 3
    /\ files # returned[2].files

HasDotSegment(p) == \E i \in 1..Len(Split(p)) : StartsWith(Split(p)[i], <<".">>)

\* C8: no emitted path has a dot-prefixed segment, be it the entry's own name
\* or one of its ancestors.
C8_NoHiddenSegment ==
    \A e \in Emitted : ~HasDotSegment(e.path)

\* the tree holds a hidden directory and a file inside it, and a call returned
C8_Witness ==
    /\ Exists(fs, Join(dir_path, <<".", "h", "/", "x">>))
    /\ OkReturns # {}
    /\ Emitted # {}

IgnoredNames == { ignore_prefixes[i] : i \in 1..Len(ignore_prefixes) }

\* C9: no emitted entry is a directory named by ignorePrefixes, and a regular
\* file of such a name that passes the other skip rules is emitted.
C9_DenylistDirectoriesOnly ==
    \A i \in OkReturns : \A n \in IgnoredNames :
        LET out == { returned[i].files[j] : j \in 1..Len(returned[i].files) }
        IN  /\ \A e \in out : e.is_directory => FileName(e.path) # Some(n)
            /\ \A q \in DOMAIN fs :
                  ( /\ fs[q].kind = "file"
                    /\ FileName(q) = Some(n)
                    /\ ~HasDotSegment(q)
                    /\ Extension(q) # Some(<<"d", "v", "c">>) ) =>
                  \E e \in out : e.path = get_relative_path(q, repo_root) /\ ~e.is_directory

\* a regular file named as a denylist entry was emitted
C9_Witness ==
    /\ IgnoredNames # {}
    /\ \E e \in Emitted : ~e.is_directory /\ FileName(e.path) \in { Some(n) : n \in IgnoredNames }

----------------------------------------------------------------------------
(* Properties of the sidecar resolver (SpecSidecar) *)

\* C10: for every file path f the sidecar path is exactly f followed by the
\* literal '.dvc'.
C10_SidecarIsDotDvcAppended ==
    (sc_dvc_file # None /\ sc_is_file) => sc_dvc_file = Some(sc_path \o DotDvc)

----------------------------------------------------------------------------
(* Properties of the Selection Set (SpecSelectionSeq, SpecSelection) *)

\* the paths added and neither removed nor cleared since their last add
Selected(h) ==
    { p \in SelPaths :
        \E i \in 1..Len(h) :
            /\ h[i].op = "add" /\ h[i].path = p
            /\ \A j \in (i + 1)..Len(h) :
                  ~(h[j].op = "remove" /\ h[j].path = p) /\ h[j].op # "clear" }

NoDuplicates(v) == \A i, j \in 1..Len(v) : v[i] = v[j] => i = j

Elements(v) == { v[i] : i \in 1..Len(v) }

\* C11: after any sequence of add, remove, clear, every list returns, without
\* duplicates, exactly the paths added and not removed or cleared since
\* their last add; the set itself holds exactly those paths.
C11_ListIsSelected ==
    /\ paths = Selected(history)
    /\ \A k \in 1..Len(history) :
          history[k].op = "list" =>
              /\ NoDuplicates(history[k].out)
              /\ Elements(history[k].out) = Selected(SubSeq(history, 1, k - 1))

\* add(x), add(x), add(y), remove(x), list() returned exactly <<y>>
C11_Witness ==
    /\ Len(history) = 5
    /\ [i \in 1..4 |-> [op |-> history[i].op, path |-> history[i].path]]
          = << Cmd("add", "x"), Cmd("add", "x"), Cmd("add", "y"), Cmd("remove", "x") >>
    /\ history[5].op = "list"
    /\ history[5].out = <<"y">>

\* the set and the list results of running the calls of h one after another
\* from the empty set: TRUE when every list result of h matches
RECURSIVE Replays(_, _)
Replays(h, set) ==
    IF h = <<>> THEN set = paths
    ELSE /\ (Head(h).op = "list" => Elements(Head(h).out) = set)
         /\ Replays(Tail(h), Effect(Head(h), set))

Orders(n) == { f \in [1..n -> 1..n] : \A i, j \in 1..n : f[i] = f[j] => i = j }

Quiescent == \A c \in Callers : cpc[c] = "idle"

\* C12: a command reads and writes the set only while it holds the mutex,
\* and once every command has returned the final set and the list results
\* are those of some sequential order of the same commands.
C12_CallsSerialize ==
    /\ \A c \in Callers : cpc[c] # "idle" => mutex = c
    /\ Quiescent =>
          \E f \in Orders(Len(history)) :
              Replays([i \in 1..Len(history) |-> history[f[i]]], {})

\* three calls returned, the last one a list holding both paths
C12_Witness ==
    /\ Quiescent
    /\ Len(history) = 3
    /\ history[3].op = "list"
    /\ Elements(history[3].out) = SelPaths

----------------------------------------------------------------------------
(* Properties of get_relative_path (SpecNormalize) *)

\* the segments of root are the leading segments of path
LiesUnder(path, root) ==
    LET cp == Components(path)
        cr == Components(root)
    IN  Len(cr) <= Len(cp) /\ \A i \in 1..Len(cr) : cp[i] = cr[i]

\* the outcome that reports a path outside the root
PathOutsideRoot == <<"PathOutsideRoot">>

\* C14: for a path that does not lie under root the outcome is the distinct
\* PathOutsideRoot, never the unstripped path.
C14_OutsideRootFails ==
    (np_once # None /\ ~LiesUnder(np_path, np_root)) => np_once = Some(PathOutsideRoot)

\* C17: for every path under root, normalizing the result again against the
\* same root gives the same value.
C17_NormalizeIdempotent ==
    (np_twice # None /\ LiesUnder(np_path, np_root)) => np_twice = np_once

\* a path two segments below the root was normalized twice
C17_Witness ==
    /\ np_twice # None
    /\ LiesUnder(np_path, np_root)
    /\ Len(Components(np_once[1])) = 2
    /\ np_once[1] # np_path

----------------------------------------------------------------------------
(* Properties of dvc_diff (SpecDvcDiff) *)

\* the report has the expected shape: an object with the five arrays, every
\* entry carrying a string `path`
WellShaped(report) ==
    /\ report.top = "object"
    /\ \A c \in CategoryKeys :
          /\ report.cats[c].shape = "array"
          /\ \A i \in 1..Len(report.cats[c].items) :
                report.cats[c].items[i].path_type = "string"

\* C15: a report that is valid JSON but not of the expected shape makes
\* dvc_diff fail rather than produce a map.
C15_MalformedReportRejected ==
    (dvc_result # None /\ dvc_run = "ok" /\ ~WellShaped(dvc_report)) => ~dvc_result[1].ok

----------------------------------------------------------------------------
(* Properties of the whole query (SpecListStatus) *)

AggregatorFails == git_fail # "none" \/ ~dvc_diff(dvc_run, dvc_report).ok

\* the ledger aggregator runs first, so its error is the one returned
AggregatorError ==
    IF git_fail # "none" THEN GitError(git_fail) ELSE dvc_diff(dvc_run, dvc_report).error

\* C13: when the ledger aggregator or the artifact aggregator fails, the
\* query returns that aggregator's error and no entries: the walk is never
\* started, nothing is collected, and the one result is the error.
C13_AggregatorFailureAborts ==
    AggregatorFails =>
        /\ rpc \in {"git", "dvc", "done"}
        /\ stack = <<>>
        /\ files = <<>>
        /\ (rpc = "done" => returned = << Err(AggregatorError) >>)

C13_Witness ==
    /\ rpc = "done"
    /\ git_fail = "none"
    /\ dvc_run = "exit_nonzero"
    /\ Cardinality(DOMAIN fs) > 1
    /\ Len(returned) = 1
    /\ ~returned[1].ok

\* the closed enumeration of status values
StatusCode ==
    { "untracked", "staged", "modified", "deleted", "conflict", "renamed",
      "pushed", "partially_staged", "other" }

\* C16 as stated: every status of an emitted entry, for every ledger output
\* and every artifact report, is one of the nine values of StatusCode.
C16_StatusInClosedSet == \A e \in Emitted : e.git_status \in StatusCode

\* C16 amended: every status of an emitted entry is one of the nine values of
\* StatusCode or one of the two further category names of the artifact
\* report, "added" and "not in cache".
C16_StatusInExtendedSet ==
    \A e \in Emitted : e.git_status \in StatusCode \cup {"added", "not in cache"}

C16_Witness ==
    /\ \E e \in Emitted : e.has_dvc_file /\ e.git_status = "not in cache"
    /\ \E e \in Emitted : e.git_status \in StatusCode

----------------------------------------------------------------------------
(* Properties of list_file_entries: lookup path, emitted path, frame *)

\* the filesystem path an emitted entry was made for
PathOf(e) == CHOOSE q \in DOMAIN fs : get_relative_path(q, repo_root) = e.path

\* the sidecar path as the resolver's contract gives it
sidecarFor(path, isDirectory) ==
    IF isDirectory THEN Join(path, UnwrapOrDefault(FileName(path)) \o DotDvc)
    ELSE path \o DotDvc

hasSidecar(path, isDirectory) == Exists(fs, sidecarFor(path, isDirectory))

LedgerValue(key) ==
    IF key \in DOMAIN git_status_map THEN git_status_map[key] ELSE "untracked"

\* C18: an emitted entry that the artifact map does not override carries the
\* ledger map's value (untracked when absent) at the lookup path relative to
\* the ledger root, the lookup path being the entry's sidecar path when the
\* sidecar exists and the entry's own path otherwise.
C18_LedgerStatusAtLookupPath ==
    \A e \in Emitted :
        LET q == PathOf(e)
            sidecar == sidecarFor(q, e.is_directory)
            lookup == IF hasSidecar(q, e.is_directory) THEN sidecar ELSE q
        IN  ~(hasSidecar(q, e.is_directory) /\ e.path \in DOMAIN dvc_status_map) =>
                e.git_status = LedgerValue(get_relative_path(lookup, repo_root))

\* C19: the path of every emitted entry is the entry's path relative to the
\* browse root, also when the browse root lies below the ledger root.
C19_PathRelativeToBrowseRoot ==
    \A e \in Emitted : e.path = get_relative_path(PathOf(e), dir_path)

\* C20: an emitted entry with hasSidecar = false carries the ledger map's
\* value at its own path (untracked when absent), and once the calls have
\* returned it is the entry made for its path under any other artifact map.
C20_NoSidecarIgnoresArtifactMap ==
    \A e \in Emitted :
        ~e.has_dvc_file =>
            /\ e.git_status = LedgerValue(e.path)
            /\ rpc = "done" =>
                  LET q == PathOf(e)
                  IN  \A dm \in ArtifactMaps(dir_path) :
                         e = MakeEntry(fs, q, repo_root, git_status_map, dm)

C20_Witness ==
    \E e \in Emitted :
        /\ ~e.has_dvc_file
        /\ e.path \in DOMAIN dvc_status_map
        /\ e.path \in DOMAIN git_status_map
        /\ dvc_status_map[e.path] # git_status_map[e.path]
        /\ e.git_status = git_status_map[e.path]

----------------------------------------------------------------------------
(* Properties of the renamed category (SpecDvcDiff) *)

\* the entries of category c that the loop reads: those of an array
EntriesOf(report, c) ==
    IF report.top = "object" /\ report.cats[c].shape = "array"
      THEN { report.cats[c].items[i] : i \in 1..Len(report.cats[c].items) }
      ELSE {}

\* the string paths the report names as `path`, in any category
ReportedPaths(report) ==
    UNION { { e.path : e \in { x \in EntriesOf(report, c) : x.path_type = "string" } } :
              c \in CategoryKeys }

\* C23: for every entry of the renamed category with a path, the map holds
\* the entry's new path as a key, mapped to renamed unless the later category
\* "not in cache" names the same path; the map's keys are the `path` fields
\* of the report and nothing else, so the old path of a renamed entry is no
\* key unless it is the `path` of an entry itself.
C23_RenamedKeyIsNewPath ==
    (dvc_result # None /\ dvc_result[1].ok) =>
        /\ DOMAIN dvc_result[1].map = ReportedPaths(dvc_report)
        /\ \A e \in EntriesOf(dvc_report, "renamed") :
              e.path_type = "string" =>
                  /\ e.path \in DOMAIN dvc_result[1].map
                  /\ (\A x \in EntriesOf(dvc_report, "not in cache") : x.path # e.path) =>
                        dvc_result[1].map[e.path] = "renamed"
                  /\ (e.path_old \notin ReportedPaths(dvc_report)) =>
                        e.path_old \notin DOMAIN dvc_result[1].map

C23_Witness ==
    /\ dvc_result # None
    /\ dvc_result[1].ok
    /\ \E e \in EntriesOf(dvc_report, "renamed") :
          /\ e.path_old = <<"s">>
          /\ e.path = <<"d">>
          /\ dvc_result[1].map = (<<"d">> :> "renamed")

----------------------------------------------------------------------------
(* Properties of the walk: unreadable entries, ignored directories *)

\* an entry whose directory listing or metadata the walk cannot read
Unreadable(q) == fs[q].access # "ok"

\* C21: an entry the walk cannot read (a directory that cannot be listed, an
\* entry whose metadata cannot be read) never makes the call fail: every
\* call returns a sequence, and the sequence holds every readable entry that
\* no skip rule applies to.
C21_UnreadableEntrySkipped ==
    \A i \in 1..Len(returned) :
        /\ returned[i].ok
        /\ \A q \in DOMAIN fs :
              (~Unreadable(q) /\ ~Skipped(fs, q, ignore_prefixes)) =>
                  \E j \in 1..Len(returned[i].files) :
                      returned[i].files[j].path = get_relative_path(q, repo_root)

\* the names of the directories above the last segment of a relative path
AncestorNames(rel) ==
    LET cs == Components(rel)
    IN  { cs[i] : i \in 1..(Len(cs) - 1) }

\* C24: no emitted entry lies beneath a directory whose name is in
\* ignore_prefixes: no segment above the entry's own name is a denylist name.
C24_IgnoredDirectoryPrunesDescendants ==
    \A e \in Emitted : AncestorNames(e.path) \cap IgnoredNames = {}

----------------------------------------------------------------------------
(* Termination of the walk (SpecReconcileFair) *)

\* a call is under way
Running == rpc \in {"call", "walk"}

\* list_file_entries is a synchronous loop: a call that can take a step takes
\* it.  This is weak fairness of NextReconcile, WF_vars(NextReconcile), with
\* ENABLED <<NextReconcile>>_vars written as the state predicate Running it
\* is equal to (WalkCanStep below: a call under way always has a step).
WalkFairness == []<>(~Running) \/ []<><<NextReconcile>>_vars

\* the status maps have no part in the control flow of the walk
InitReconcileFair ==
    InitReconcile /\ git_status_map = EmptyMap /\ dvc_status_map = EmptyMap

SpecReconcileFair == InitReconcileFair /\ [][NextReconcile]_vars /\ WalkFairness

\* a walk whose stack is not empty has an entry or an error on top to read
WalkCanStep ==
    (rpc = "walk" /\ stack # <<>> /\ ~stack[Len(stack)].err) =>
        stack[Len(stack)].pending # {}

\* every entry the walk has yielded is an entry of the tree, yielded once
VisitedAtMostOnce == \A q \in DOMAIN visited : q \in DOMAIN fs /\ visited[q] = 1

\* no returned sequence holds the path of a symbolic link
NoSymlinkEmitted ==
    \A q \in DOMAIN fs :
        fs[q].kind = "symlink" =>
            \A e \in Emitted : e.path # get_relative_path(q, repo_root)

\* C22: on every finite tree, also one holding a symbolic link to an ancestor
\* directory, the calls come to their end; throughout, every entry is visited
\* at most once and no symbolic link is emitted.
C22_WalkTerminates ==
    /\ [](VisitedAtMostOnce /\ NoSymlinkEmitted /\ WalkCanStep)
    /\ <>(rpc = "done")

C22_Witness ==
    /\ rpc = "done"
    /\ Len(returned) = 2
    /\ returned[2].ok
    /\ Len(returned[2].files) = 3
    /\ \E q \in DOMAIN fs :
          /\ fs[q].kind = "symlink"
          /\ Resolve(Join(dir_path, fs[q].target)) = dir_path
          /\ q \in DOMAIN visited

----------------------------------------------------------------------------
(* The skip rules and the browse root's own path *)

\* C26: the hidden-segment and metadata-directory rules look only at the
\* segments below the browse root: every entry whose path relative to the
\* browse root has no dot-prefixed segment, and which no other skip rule
\* applies to, is in every returned sequence, whatever the browse root's path.
C26_SkipRulesBelowBrowseRoot ==
    \A i \in OkReturns :
        \A q \in DOMAIN fs :
            LET rel == get_relative_path(q, dir_path)
            IN  ( /\ ~IsHiddenPath(rel)
                  /\ ~IsGitPath(rel)
                  /\ ~IsIgnoredDir(fs, q, ignore_prefixes)
                  /\ ~IsSidecarFile(q)
                  /\ ~IsSymlink(fs, q) ) =>
                    \E j \in 1..Len(returned[i].files) :
                        returned[i].files[j].path = get_relative_path(q, repo_root)

----------------------------------------------------------------------------
(* add_dvc_file followed by the query (SpecAddThenList) *)

\* the file added, as a key of the status maps
AddedKey == get_relative_path(Resolve(Join(RepoRoot, add_file)), RepoRoot)

\* C25: after a successful add_dvc_file(f) for a file f that is no sidecar
\* itself, a query that returns entries emits f with hasSidecar = true and,
\* where the artifact map does not override it, with the status staged.
C25_AddedFileListedStaged ==
    ( /\ rpc = "done"
      /\ add_result # None
      /\ add_result[1].ok
      /\ ~IsSidecarFile(add_file)
      /\ Len(returned) = 1
      /\ returned[1].ok ) =>
        \E e \in Emitted :
            /\ e.path = AddedKey
            /\ e.has_dvc_file
            /\ (e.path \notin DOMAIN dvc_status_map => e.git_status = "staged")

====
